---- MODULE Spec2Model ----
(***************************************************************************)
(* The vector store of the RAG indexer: the web server's in-memory FAISS   *)
(* index and metadata list (src/app.py), the two files of the index        *)
(* directory, and the command line tools that write (src/index.py) and     *)
(* read (src/query.py) the same directory.                                 *)
(*                                                                         *)
(* External collaborators are modelled by their contracts:                 *)
(*  - the embedder turns a text into a vector of the dimension its model   *)
(*    has at the time of the call; a text is identified by the token its   *)
(*    embedding rests on, Embed(t, d) = <<t, 0, ..., 0>>;                   *)
(*  - faiss.IndexFlatL2: add() rejects vectors of another dimension        *)
(*    (the wrapper's "assert d == self.d"), search() returns exactly k     *)
(*    (distance, label) pairs in ascending distance, equal distances by    *)
(*    lower label, padded with label -1 when fewer than k vectors exist;   *)
(*  - a file is absent, holds a complete value, or is corrupt (truncated   *)
(*    by a write that did not finish).                                     *)
(***************************************************************************)
EXTENDS Integers, Sequences, FiniteSets, TLC

\* ---------------------------------------------------------------- bounds
\* The largest number of vectors the index is grown to.
MaxTotal == 2
\* The largest number of texts (and of sources) of one insert.
MaxBatch == 2
\* The largest top_k of a search.
MaxK == 3

\* "top_k: int = 3", the default of both search_index and of --top-k.
DefaultTopK == 3

\* Tokens of texts and queries (the first coordinate of the embedding).
Tokens == {0, 1}
\* The one token of the texts where only their number matters.
OneToken == {0}
\* Embedding dimensions the embedder may have.
Dims == {1, 2}

\* ------------------------------------------------------ external: embedder
\* OllamaEmbedder.embed_single: the vector of one text.
embed_single(t, d) == [i \in 1..d |-> IF i = 1 THEN t ELSE 0]

\* OllamaEmbedder.embed_texts: one vector per text, in order.
embed_texts(texts, d) == [i \in 1..Len(texts) |-> embed_single(texts[i], d)]

\* --------------------------------------------------------- external: faiss
\* "faiss_index = None"
None == [none |-> TRUE, d |-> 0, xs |-> <<>>]

\* faiss.IndexFlatL2(dimension): an empty index locked to the dimension.
IndexFlatL2(dimension) == [none |-> FALSE, d |-> dimension, xs |-> <<>>]

\* index.ntotal
ntotal(index) == Len(index.xs)

\* A wrapper that checks nothing: vectors of any dimension are added.
accepts_any(index, dim) == TRUE

\* index.add(x): the wrapper's "assert d == self.d".
accepts(index, dim) == index.d = dim

\* index.add(x), once the assertion has passed.
add(index, vectors) == [index EXCEPT !.xs = @ \o vectors]

RECURSIVE SumSq(_, _, _)
SumSq(u, v, n) ==
    IF n = 0 THEN 0 ELSE (u[n] - v[n]) * (u[n] - v[n]) + SumSq(u, v, n - 1)

\* The squared Euclidean distance IndexFlatL2 reports.
L2sqr(u, v) == SumSq(u, v, Len(u))

\* The distance faiss reports with the label -1 (the largest float).
NoDistance == 2^30 + (2^30 - 1)

\* The number of stored vectors that come before vector i in the result
\* order: nearer to qv, or as near with a lower label.
Rank(index, qv, i) ==
    Cardinality({j \in 1..ntotal(index) :
        \/ L2sqr(index.xs[j], qv) < L2sqr(index.xs[i], qv)
        \/ L2sqr(index.xs[j], qv) = L2sqr(index.xs[i], qv) /\ j < i})

\* index.search(query_vector, k): k (distance, label) pairs, labels 0-based.
FaissSearch(index, qv, k) ==
    [r \in 1..k |->
        IF r <= ntotal(index)
        THEN LET i == CHOOSE j \in 1..ntotal(index) : Rank(index, qv, j) = r - 1
             IN  [dist |-> L2sqr(index.xs[i], qv), idx |-> i - 1]
        ELSE [dist |-> NoDistance, idx |-> -1]]

\* ----------------------------------------------------------------- state
VARIABLES
    up,               \* the web server process is running
    faiss_index,      \* app.py: global faiss_index (None or an index)
    metadata,         \* app.py: global metadata (a list of entries)
    faiss_file,       \* <index dir>/faiss.index
    metadata_file,    \* <index dir>/metadata.json
    indexing_status,  \* app.py: global indexing_status
    ret,              \* the last operation: its arguments and its outcome
    hist,             \* the successful inserts since the store was empty
    requests          \* app.py upload_files: the upload requests being served

vars == <<up, faiss_index, metadata, faiss_file, metadata_file,
          indexing_status, ret, hist, requests>>

store == <<faiss_index, metadata>>
disk == <<faiss_file, metadata_file>>

\* The five steps of the progress record.
StepNames == {"documents", "parsing", "chunking", "embedding", "faiss"}

\* The value reset_indexing_status installs (and the module's initial one).
InitialStatus ==
    [active |-> FALSE,
     steps |-> [s \in StepNames |-> "pending"],
     error |-> "None"]

\* update_step_status(step, status)
update_step_status(status_rec, step, status) ==
    IF step \in StepNames
    THEN [status_rec EXCEPT !.steps[step] = status]
    ELSE status_rec

\* A file that does not exist.
AbsentIndexFile == [st |-> "absent", index |-> None]
AbsentMetadataFile == [st |-> "absent", entries |-> <<>>]

\* A file whose write did not finish.
CorruptIndexFile == [st |-> "corrupt", index |-> None]
CorruptMetadataFile == [st |-> "corrupt", entries |-> <<>>]

\* faiss.write_index(index, path) run to its end.
write_index(index) == [st |-> "ok", index |-> index]

\* json.dump(metadata, f) run to its end.
json_dump(entries) == [st |-> "ok", entries |-> entries]

\* The record of the last operation: its arguments (of the texts of an
\* insert their number, and the texts themselves once the call has come to
\* store them), its outcome and, for an insert that comes right after a successful clear,
\* the dimension of the index that clear discarded.
Ret(op, err) ==
    [op |-> op, err |-> err, nT |-> 0, nS |-> 0, dim |-> 0, texts |-> <<>>,
     q |-> 0, k |-> 0, count |-> 0, results |-> <<>>, loaded |-> FALSE,
     cleared |-> 0]

\* The history of the store in memory: ok, it was empty and has since seen
\* only n successful inserts of m texts and m sources each.
FreshHist == [n |-> 0, m |-> 0, ok |-> TRUE]

\* The store was changed by something else than such an insert.
SpoiltHist == [n |-> 0, m |-> 0, ok |-> FALSE]

\* The upload requests the server may be serving at once (Flask serves
\* each request in a thread of its own).
Requests == {1, 2}

\* A request that has not arrived: the files it was sent with and those
\* the loop has still to take, the locals all_chunks and processed_files
\* of upload_files, whether this run has called set_indexing_error, and
\* the response: its status ("exception" for an exception that leaves
\* upload_files) and its indexed_chunks.
IdleRequest ==
    [pc |-> "idle", uploaded |-> <<>>, files |-> <<>>, all_chunks |-> <<>>,
     processed_files |-> <<>>, failed |-> FALSE, response |-> "none",
     indexed_chunks |-> 0]

NoRequests == [r \in Requests |-> IdleRequest]

Init ==
    /\ requests = NoRequests
    /\ up = FALSE
    /\ faiss_index = None
    /\ metadata = <<>>
    /\ faiss_file = AbsentIndexFile
    /\ metadata_file = AbsentMetadataFile
    /\ indexing_status = InitialStatus
    /\ ret = Ret("init", "none")
    /\ hist = FreshHist

\* ------------------------------------------------------------ persistence
\* The points at which writing the pair can stop.
Stops == {"before_write", "in_index", "between", "in_metadata", "done"}

\* app.py save_index / index.py save_index: faiss.write_index, then open
\* metadata.json for writing and json.dump. The files as they are when the
\* writing stops at `stop`.
save_index(index, entries, stop, old_faiss_file, old_metadata_file) ==
    CASE stop = "before_write" -> <<old_faiss_file, old_metadata_file>>
      [] stop = "in_index"     -> <<CorruptIndexFile, old_metadata_file>>
      [] stop = "between"      -> <<write_index(index), old_metadata_file>>
      [] stop = "in_metadata"  -> <<write_index(index), CorruptMetadataFile>>
      [] OTHER                 -> <<write_index(index), json_dump(entries)>>

\* ------------------------------------------------------------- web server
\* app.py load_index, the value it leaves in (faiss_index, metadata) and
\* whether it returns or raises.
load_index ==
    IF faiss_file.st # "absent" /\ metadata_file.st # "absent"
    THEN IF faiss_file.st = "corrupt"
         THEN [err |-> "ReadIndexError", index |-> None, entries |-> <<>>,
               loaded |-> FALSE]
         ELSE IF metadata_file.st = "corrupt"
         THEN [err |-> "JSONDecodeError", index |-> faiss_file.index,
               entries |-> <<>>, loaded |-> FALSE]
         ELSE [err |-> "none", index |-> faiss_file.index,
               entries |-> metadata_file.entries, loaded |-> TRUE]
    ELSE [err |-> "none", index |-> None, entries |-> <<>>, loaded |-> FALSE]

\* python app.py: the module's globals are initialised and main calls
\* load_index(); an exception of load_index ends the process.
Start ==
    /\ UNCHANGED requests
    /\ ~up
    /\ LET r == load_index IN
       /\ up' = (r.err = "none")
       /\ faiss_index' = IF r.err = "none" THEN r.index ELSE None
       /\ metadata' = IF r.err = "none" THEN r.entries ELSE <<>>
       /\ ret' = [Ret("load", r.err) EXCEPT !.loaded = r.loaded]
       /\ hist' = IF ntotal(r.index) = 0 /\ r.entries = <<>>
                  THEN FreshHist ELSE SpoiltHist
    /\ indexing_status' = InitialStatus
    /\ UNCHANGED disk

\* The server process is killed; its globals are lost.
Crash ==
    /\ UNCHANGED requests
    /\ up
    /\ up' = FALSE
    /\ faiss_index' = None
    /\ metadata' = <<>>
    /\ indexing_status' = InitialStatus
    /\ ret' = Ret("crash", "crash")
    /\ hist' = FreshHist
    /\ UNCHANGED disk

\* min(a, b)
Min(a, b) == IF a <= b THEN a ELSE b

\* Entries numbered from start_id + 1: "id": start_id + i + 1.
new_entries_off_by_one(texts, nS, start_id) ==
    [i \in 1..Min(Len(texts), nS) |-> [id |-> start_id + i, text |-> texts[i]]]

\* The metadata appended by create_or_update_index: one entry per pair of
\* zip(texts, sources), with "id": start_id + i and the text (the fields
\* copied from the source are left out).
new_entries(texts, nS, start_id) ==
    [i \in 1..Min(Len(texts), nS) |->
        [id |-> start_id + (i - 1), text |-> texts[i]]]

\* The successful inserts since the store was empty, after one more of
\* nT texts and nS sources.
NextHist(h, nT, nS) ==
    IF h.ok /\ nT = nS /\ (h.n = 0 \/ h.m = nT)
    THEN [h EXCEPT !.n = h.n + 1, !.m = nT]
    ELSE SpoiltHist

\* A call goes to its end and writes both files, or stops at a point of
\* the writing.
Outcomes ==
    {<<"ok", "done">>, <<"embed_texts", "done">>}
        \cup ({"raise", "crash"} \X (Stops \ {"done"}))

\* The dimension of the index discarded by the clear that was the last
\* operation, 0 when there is none.
JustCleared ==
    IF ret.op = "clear" /\ ret.err = "none" THEN ret.dim ELSE 0

\* app.py create_or_update_index(texts, sources), the embedder giving
\* vectors of dimension dim. The record of the call holds the arguments as
\* far as the call came to use them.
Insert(texts, nS, dim, how, stop) ==
    /\ UNCHANGED requests
    /\ up
    /\ ntotal(faiss_index) + Len(texts) <= MaxTotal
    /\ Len(metadata) + Min(Len(texts), nS) <= MaxTotal
    /\ LET call == [Ret("insert", "none") EXCEPT
                        !.nT = Len(texts), !.nS = nS, !.dim = dim]
           st1 == update_step_status(indexing_status, "embedding", "processing")
           st2 == update_step_status(
                      update_step_status(st1, "embedding", "completed"),
                      "faiss", "processing")
           index0 == IF faiss_index.none THEN IndexFlatL2(dim) ELSE faiss_index
           start_id == ntotal(index0)
           index1 == add(index0, embed_texts(texts, dim))
           metadata1 == metadata \o new_entries(texts, nS, start_id)
           files == save_index(index1, metadata1, stop, faiss_file, metadata_file)
       IN
       IF how = "embed_texts"
       THEN \* embedder.embed_texts raises (it makes no request for no text)
            /\ texts # <<>>
            /\ indexing_status' = st1
            /\ ret' = Ret("insert", "EmbedderError")
            /\ UNCHANGED <<up, store, disk, hist>>
       ELSE IF texts = <<>>
       THEN \* embeddings_array.shape[1] of an empty array
            /\ how = "ok"
            /\ indexing_status' = st2
            /\ ret' = [call EXCEPT !.err = "IndexError", !.dim = 0]
            /\ UNCHANGED <<up, store, disk, hist>>
       ELSE IF ~accepts(index0, dim)
       THEN \* faiss_index.add raises
            /\ how = "ok"
            /\ indexing_status' = st2
            /\ ret' = [call EXCEPT !.err = "AssertionError"]
            /\ UNCHANGED <<up, store, disk, hist>>
       ELSE IF how = "crash"
       THEN \* the process is killed inside save_index
            /\ up' = FALSE
            /\ faiss_index' = None
            /\ metadata' = <<>>
            /\ faiss_file' = files[1]
            /\ metadata_file' = files[2]
            /\ indexing_status' = InitialStatus
            /\ ret' = [call EXCEPT !.err = "crash", !.texts = texts]
            /\ hist' = FreshHist
       ELSE IF how = "raise"
       THEN \* save_index raises; nothing is undone
            /\ faiss_index' = index1
            /\ metadata' = metadata1
            /\ faiss_file' = files[1]
            /\ metadata_file' = files[2]
            /\ indexing_status' = st2
            /\ ret' = [call EXCEPT !.err = "OSError"]
            /\ hist' = SpoiltHist
            /\ UNCHANGED up
       ELSE /\ faiss_index' = index1
            /\ metadata' = metadata1
            /\ faiss_file' = files[1]
            /\ metadata_file' = files[2]
            /\ indexing_status' = update_step_status(st2, "faiss", "completed")
            /\ ret' = [call EXCEPT !.count = Len(texts), !.texts = texts,
                                   !.cleared = JustCleared]
            /\ hist' = NextHist(hist, Len(texts), nS)
            /\ UNCHANGED up

\* The files of the index directory.
IndexFiles == {"faiss.index", "metadata.json"}

\* A clear that empties the index and keeps it, with its dimension.
EmptiedIndex ==
    IF faiss_index.none THEN None ELSE IndexFlatL2(faiss_index.d)

\* app.py clear_index: "faiss_index = None".
ClearedIndex == None

\* app.py clear_index: the globals are reset, then shutil.rmtree removes
\* the index directory; when rmtree raises, only `removed` is gone and the
\* handler answers with the error (the status is not reset). The record of
\* the call holds what was discarded: the dimension and the vectors' number.
Clear(removed, raised) ==
    /\ UNCHANGED requests
    /\ up
    /\ removed \subseteq IndexFiles
    /\ ~raised => removed = IndexFiles
    /\ faiss_index' = ClearedIndex
    /\ metadata' = <<>>
    /\ faiss_file' =
          IF "faiss.index" \in removed THEN AbsentIndexFile ELSE faiss_file
    /\ metadata_file' =
          IF "metadata.json" \in removed THEN AbsentMetadataFile
          ELSE metadata_file
    /\ indexing_status' = IF raised THEN indexing_status ELSE InitialStatus
    /\ ret' = [Ret("clear", IF raised THEN "OSError" ELSE "none") EXCEPT
                  !.dim = faiss_index.d, !.count = ntotal(faiss_index)]
    /\ hist' = FreshHist
    /\ UNCHANGED up

\* --------------------------------------------------------------- search
\* list[idx] of Python is defined for -len(list) <= idx < len(list) and
\* raises IndexError otherwise; a negative idx counts from the end.
InRange(list, idx) == -Len(list) <= idx /\ idx < Len(list)

PyGet(list, idx) ==
    IF idx >= 0 THEN list[idx + 1] ELSE list[Len(list) + idx + 1]

\* The loop over zip(distances[0], indices[0]): the hits that pass the test
\* "idx < len(metadata)", each with its place in the loop.
Keep(hits, entries) ==
    SelectSeq([r \in 1..Len(hits) |->
                  [dist |-> hits[r].dist, idx |-> hits[r].idx, rank |-> r]],
              LAMBDA h : h.idx < Len(entries))

\* The results of the loop: each kept hit becomes a copy of metadata[idx]
\* with its distance (and, in query.py, its rank); metadata[idx] raising
\* ends the loop with the error.
ResultsOf(hits, entries) ==
    LET kept == Keep(hits, entries) IN
    IF \E r \in 1..Len(kept) : ~InRange(entries, kept[r].idx)
    THEN [err |-> "IndexError", results |-> <<>>]
    ELSE [err |-> "none",
          results |->
            [r \in 1..Len(kept) |->
                [id |-> PyGet(entries, kept[r].idx).id,
                 text |-> PyGet(entries, kept[r].idx).text,
                 distance |-> kept[r].dist,
                 rank |-> kept[r].rank]]]

\* app.py search_index(query, top_k) on the globals.
search_index(q, top_k) ==
    IF faiss_index.none \/ ntotal(faiss_index) = 0
    THEN [err |-> "none", results |-> <<>>]
    ELSE ResultsOf(FaissSearch(faiss_index, embed_single(q, faiss_index.d),
                               Min(top_k, ntotal(faiss_index))),
                   metadata)

\* query.py search_index(query, index, metadata, embedder, top_k)
cli_search_index(q, index, entries, top_k) ==
    ResultsOf(FaissSearch(index, embed_single(q, index.d), top_k), entries)

\* POST /api/search
Search(q, top_k) ==
    /\ UNCHANGED requests
    /\ up
    /\ LET r == search_index(q, top_k) IN
       ret' = [Ret("search", r.err) EXCEPT
                  !.q = q, !.k = top_k, !.results = r.results]
    /\ UNCHANGED <<up, store, disk, indexing_status, hist>>

\* ------------------------------------------------------ command line tools
\* query.py load_index(index_dir)
cli_load_index ==
    IF faiss_file.st = "absent"
    THEN [err |-> "FileNotFoundError", index |-> None, entries |-> <<>>]
    ELSE IF faiss_file.st = "corrupt"
    THEN [err |-> "ReadIndexError", index |-> None, entries |-> <<>>]
    ELSE IF metadata_file.st = "absent"
    THEN [err |-> "FileNotFoundError", index |-> None, entries |-> <<>>]
    ELSE IF metadata_file.st = "corrupt"
    THEN [err |-> "JSONDecodeError", index |-> None, entries |-> <<>>]
    ELSE [err |-> "none", index |-> faiss_file.index,
          entries |-> metadata_file.entries]

\* query.py query_rag(query, index_dir, top_k): load the pair, search it.
CliQuery(q, top_k) ==
    /\ UNCHANGED requests
    /\ LET l == cli_load_index
           r == IF l.err = "none"
                THEN cli_search_index(q, l.index, l.entries, top_k)
                ELSE [err |-> l.err, results |-> <<>>]
       IN ret' = [Ret("cli_query", r.err) EXCEPT
                     !.q = q, !.k = top_k, !.loaded = (l.err = "none"),
                     !.results = r.results]
    /\ UNCHANGED <<up, store, disk, indexing_status, hist>>

\* The metadata index.py index_documents builds for the chunks: "id": i
\* and the text.
cli_entries(texts) ==
    [i \in 1..Len(texts) |-> [id |-> i - 1, text |-> texts[i]]]

\* index.py create_faiss_index(embeddings)
create_faiss_index(vectors, dim) == add(IndexFlatL2(dim), vectors)

\* index.py index_documents(input_path, output_dir), output_dir being the
\* index directory, run to its end or killed while writing, while the
\* server is down (processes sharing the directory at the same time are
\* out of scope).
CliIndex(texts, dim, how, stop) ==
    /\ UNCHANGED requests
    /\ ~up
    /\ texts # <<>>
    /\ how \in {"ok", "crash"}
    /\ LET files == save_index(create_faiss_index(embed_texts(texts, dim), dim),
                               cli_entries(texts), stop,
                               faiss_file, metadata_file)
       IN /\ faiss_file' = files[1]
          /\ metadata_file' = files[2]
    /\ ret' = [Ret("cli_index", IF how = "ok" THEN "none" ELSE "crash")
                  EXCEPT !.nT = Len(texts), !.dim = dim, !.texts = texts]
    /\ UNCHANGED <<up, store, indexing_status, hist>>

\* ------------------------------------------------------------------ inputs
\* Sequences over S of length lo..hi.
SeqsOf(S, lo, hi) == UNION {[1..n -> S] : n \in lo..hi}

TopKs == 1..MaxK

\* The store with its faults: the server, which may be killed and started
\* again, and the command line tools on the same index directory. The
\* texts are all alike: their number is what matters here.
Next ==
    \/ Start
    \/ Crash
    \/ \E texts \in SeqsOf(OneToken, 0, MaxBatch), nS \in 0..MaxBatch,
          dim \in Dims, o \in Outcomes : Insert(texts, nS, dim, o[1], o[2])
    \/ Clear(IndexFiles, FALSE)
    \/ Clear({}, TRUE)
    \/ \E texts \in SeqsOf(OneToken, 1, MaxBatch), dim \in Dims,
          o \in Outcomes : CliIndex(texts, dim, o[1], o[2])
    \/ \E q \in OneToken : CliQuery(q, DefaultTopK)

Spec == Init /\ [][Next]_vars

\* The store without faults, with texts that differ: the index directory
\* is empty at first, or holds an empty index of some dimension with an
\* empty metadata list; the server is started, texts are inserted and
\* searched, through the server and through query.py.
InitStore ==
    /\ requests = NoRequests
    /\ up = FALSE
    /\ faiss_index = None
    /\ metadata = <<>>
    /\ \/ /\ faiss_file = AbsentIndexFile
          /\ metadata_file = AbsentMetadataFile
       \/ \E d \in Dims :
             /\ faiss_file = write_index(IndexFlatL2(d))
             /\ metadata_file = json_dump(<<>>)
    /\ indexing_status = InitialStatus
    /\ ret = Ret("init", "none")
    /\ hist = FreshHist

NextStore ==
    \/ Start
    \/ \E texts \in SeqsOf(Tokens, 0, MaxBatch), nS \in 0..MaxBatch,
          dim \in Dims, how \in {"ok", "embed_texts"} :
          Insert(texts, nS, dim, how, "done")
    \/ Clear(IndexFiles, FALSE)
    \/ \E q \in Tokens, top_k \in TopKs : Search(q, top_k)
    \/ \E q \in Tokens, top_k \in TopKs : CliQuery(q, top_k)

SpecStore == InitStore /\ [][NextStore]_vars
\* ------------------------------------------------------------------ claims
\* The alignment of an index and a metadata list: as many entries as
\* vectors, and entry number i has id i.
Aligned(index, entries) ==
    /\ ntotal(index) = Len(entries)
    /\ \A i \in 1..Len(entries) : entries[i].id = i - 1

\* C1: in every state of the running server the similarity index holds as
\* many vectors as the metadata list has entries, and metadata[i].id = i,
\* whatever inserts (returned or raised), clears and loads came before.
C1_AlignmentInvariant == up => Aligned(faiss_index, metadata)

\* The files a call of create_or_update_index, or of index_documents,
\* writes when it runs to its end: here for the call whose record is ret',
\* made in the state before it.
FilesWhenDone ==
    IF ret'.op = "insert"
    THEN LET index0 == IF faiss_index.none THEN IndexFlatL2(ret'.dim)
                       ELSE faiss_index
         IN  save_index(add(index0, embed_texts(ret'.texts, ret'.dim)),
                        metadata \o new_entries(ret'.texts, ret'.nS,
                                                ntotal(index0)),
                        "done", faiss_file, metadata_file)
    ELSE save_index(create_faiss_index(embed_texts(ret'.texts, ret'.dim),
                                       ret'.dim),
                    cli_entries(ret'.texts), "done", faiss_file, metadata_file)

\* C2: when the process is killed while an insert persists the store, the
\* index directory holds both files as they were before the insert or both
\* as the finished insert writes them.
C2_PersistAtomic ==
    [][(ret'.op \in {"insert", "cli_index"} /\ ret'.err = "crash")
          => (disk' = disk \/ disk' = FilesWhenDone)]_vars

\* The two files are complete and hold different numbers of records.
MismatchedPair ==
    /\ faiss_file.st = "ok"
    /\ metadata_file.st = "ok"
    /\ ntotal(faiss_file.index) # Len(metadata_file.entries)

\* C3: a load (of the server at its start, of query.py) that finds an index
\* file and a metadata file of different lengths fails with CorruptIndex,
\* and the server does not take the pair as its store.
C3_LoadDetectsMismatch ==
    (ret.op \in {"load", "cli_query"} /\ MismatchedPair)
        => /\ ret.err = "CorruptIndex"
           /\ ret.op = "load"
                 => ~(faiss_index = faiss_file.index
                        /\ metadata = metadata_file.entries)

\* C4: an insert of vectors of another dimension than the one the index is
\* locked to fails (faiss raises from add, the code's DimensionMismatch),
\* and leaves the index, the metadata list and both files as they were.
C4_DimensionLock ==
    [][(ret'.op = "insert" /\ ~faiss_index.none /\ ret'.nT > 0
           /\ ret'.dim # 0 /\ ret'.dim # faiss_index.d)
          => /\ ret'.err = "AssertionError"
             /\ ntotal(faiss_index') = ntotal(faiss_index)
             /\ UNCHANGED <<store, disk>>]_vars

\* C4, witness: an insert was refused for its dimension by an index that
\* holds vectors.
C4_Witness ==
    /\ ret.op = "insert"
    /\ ret.err = "AssertionError"
    /\ ntotal(faiss_index) >= 1
    /\ ret.dim # faiss_index.d
    /\ faiss_file = write_index(faiss_index)

\* C5: an insert with another number of texts than of sources fails before
\* anything is appended: the call raises, and neither the index nor the
\* metadata list changes.
C5_LengthMismatchRejected ==
    [][(ret'.op = "insert" /\ ret'.nT # ret'.nS)
          => (ret'.err # "none" /\ UNCHANGED store)]_vars

\* C6: a successful insert of n texts with n sources returns n, appends n
\* vectors and n entries after the ones there were, entry p with id
\* previous_total + p, its text and, at the same place of the index, the
\* vector of its text; and once a store that was empty has seen N such
\* inserts of m texts each and nothing else, total_count = N * m and
\* metadata[i].id = i for all i.
C6_InsertAppends ==
    /\ [][(ret'.op = "insert" /\ ret'.err = "none" /\ ret'.nT = ret'.nS)
            => LET n == ret'.nT
                   prev == ntotal(faiss_index)
                   had == Len(metadata)
               IN  /\ ret'.count = n
                   /\ ntotal(faiss_index') = prev + n
                   /\ Len(metadata') = had + n
                   /\ SubSeq(faiss_index'.xs, 1, prev) = faiss_index.xs
                   /\ SubSeq(metadata', 1, had) = metadata
                   /\ \A p \in 1..n :
                        /\ metadata'[had + p].id = prev + (p - 1)
                        /\ metadata'[had + p].text = ret'.texts[p]
                        /\ faiss_index'.xs[prev + p]
                              = embed_single(ret'.texts[p], ret'.dim)]_vars
    /\ []((hist.ok /\ hist.n >= 1)
            => /\ ntotal(faiss_index) = hist.n * hist.m
               /\ Aligned(faiss_index, metadata))

\* C6, witness: two inserts of one text each, of different texts, into a
\* store that was empty.
C6_Witness ==
    /\ ret.op = "insert"
    /\ ret.err = "none"
    /\ hist.ok
    /\ hist.n = 2
    /\ hist.m = 1
    /\ metadata[1].text # metadata[2].text

\* The store a search looked at: the server's globals, or the pair query.py
\* loaded from the files.
Searched ==
    IF ret.op = "search"
    THEN [index |-> faiss_index, entries |-> metadata]
    ELSE [index |-> faiss_file.index, entries |-> metadata_file.entries]

\* A search has run: on the server, or by query.py once the pair is loaded.
SearchRan == ret.op = "search" \/ (ret.op = "cli_query" /\ ret.loaded)

\* C7: a search of an aligned store that holds vectors (the empty store is
\* C8's) with k >= 1 returns min(k, total_count) results, each the entry of another stored vector with its squared
\* distance to the query, in ascending distance and, at equal distance, in
\* ascending id; on the server and in query.py.
C7_SearchReturnsNearest ==
    (SearchRan /\ Aligned(Searched.index, Searched.entries)
        /\ ntotal(Searched.index) >= 1 /\ ret.k >= 1)
        => LET index == Searched.index
               res == ret.results
               qv == embed_single(ret.q, index.d)
           IN  /\ ret.err = "none"
               /\ Len(res) = Min(ret.k, ntotal(index))
               /\ \A r \in 1..Len(res) :
                    /\ res[r].id \in 0..(ntotal(index) - 1)
                    /\ res[r].text = Searched.entries[res[r].id + 1].text
                    /\ res[r].distance = L2sqr(index.xs[res[r].id + 1], qv)
               /\ \A r1, r2 \in 1..Len(res) :
                    r1 < r2 =>
                      \/ res[r1].distance < res[r2].distance
                      \/ /\ res[r1].distance = res[r2].distance
                         /\ res[r1].id < res[r2].id

\* C8: a search of an empty store (no index, or an index of no vectors,
\* and no entries) returns no result and raises nothing; on the server and
\* in query.py.
C8_EmptySearch ==
    (SearchRan /\ ntotal(Searched.index) = 0 /\ Searched.entries = <<>>)
        => (ret.err = "none" /\ ret.results = <<>>)

\* C9: after a clear the server holds no index and no entry and both files
\* are gone; the insert that follows is not refused for its dimension,
\* whatever dimension the discarded index had, and when it returns the
\* index has its dimension and the ids start at 0.
C9_ClearResets ==
    /\ []((ret.op = "clear" /\ ret.err = "none")
            => /\ faiss_index.none
               /\ ntotal(faiss_index) = 0
               /\ metadata = <<>>
               /\ faiss_file.st = "absent"
               /\ metadata_file.st = "absent")
    /\ [][(ret.op = "clear" /\ ret.err = "none" /\ ret'.op = "insert"
             /\ ret'.nT > 0 /\ ret'.dim # 0)
            => /\ ret'.err # "AssertionError"
               /\ ret'.err = "none"
                    => /\ faiss_index'.d = ret'.dim
                       /\ ntotal(faiss_index') = ret'.nT
                       /\ \A i \in 1..Len(metadata') : metadata'[i].id = i - 1]_vars

\* C9, witness: an insert has returned right after a clear that discarded
\* an index of another dimension.
C9_Witness ==
    /\ ret.op = "insert"
    /\ ret.err = "none"
    /\ ret.cleared # 0
    /\ ret.cleared # ret.dim
    /\ faiss_index.d = ret.dim
    /\ ret.nS >= 1
    /\ metadata[1].id = 0

\* The files hold the store of the server: no file when there is no index,
\* else the index and the metadata list.
DiskEqualsMemory ==
    IF faiss_index.none
    THEN metadata = <<>> /\ faiss_file.st = "absent"
                         /\ metadata_file.st = "absent"
    ELSE faiss_file = write_index(faiss_index)
            /\ metadata_file = json_dump(metadata)

\* C10: after every insert that returned or raised, and after every clear,
\* the files hold exactly the index and the metadata list of the server.
C10_DiskEqualsMemory ==
    (up /\ ret.op \in {"insert", "clear"}) => DiskEqualsMemory
\* ----------------------------------------------------------------- chunker
\* src/utils/chunker.py. A text is a sequence of characters; each character
\* carries the place p it has in the document, so that a segment tells the
\* span of the document it was cut from. The code looks at c only.

\* The longest document text over all the characters.
MaxLen == 6
\* The longest document text of letters and spaces.
MaxWordsLen == 10
\* The largest chunk_size, in tokens.
MaxChunkSize == 2
\* The largest chunk_overlap, in tokens.
MaxOverlap == 2

\* The characters of the documents: a letter, the full stop, and two of the
\* characters str.strip() removes.
Whitespace == {" ", "\n"}
Chars == {"a", "."} \cup Whitespace

\* DEFAULT_SEPARATORS = ["\n\n", "\n", ". ", " "]
DEFAULT_SEPARATORS == << <<"\n", "\n">>, <<"\n">>, <<".", " ">>, <<" ">> >>

\* The document texts: the short ones over all the characters, the longer
\* ones of letters and spaces.
Texts ==
    SeqsOf(Chars, 0, MaxLen) \cup SeqsOf({"a", " "}, MaxLen + 1, MaxWordsLen)

\* A document text: its characters with their places.
Document(cs) == [i \in 1..Len(cs) |-> [c |-> cs[i], p |-> i]]

\* A count of ten times fewer tokens: len(text) // 30.
count_tokens_coarse(text) == Len(text) \div 30

\* count_tokens_approx(text): len(text) // 3
count_tokens_approx(text) == Len(text) \div 3

\* A strip that removes nothing.
no_strip(text) == text

\* text.strip()
strip(text) ==
    LET n == Len(text)
        blank(i) == text[i].c \in Whitespace
    IN  IF \A i \in 1..n : blank(i) THEN <<>>
        ELSE SubSeq(text,
                    CHOOSE i \in 1..n :
                        ~blank(i) /\ \A j \in 1..(i - 1) : blank(j),
                    CHOOSE i \in 1..n :
                        ~blank(i) /\ \A j \in (i + 1)..n : blank(j))

\* The separator stands at place i of the text.
StandsAt(text, separator, i) ==
    /\ i + Len(separator) - 1 <= Len(text)
    /\ \A j \in 1..Len(separator) : text[i + j - 1].c = separator[j]

\* The scan of str.split for the separator, from the left, over the places
\* lo..hi of the text: each occurrence that starts at or after `next` ends
\* a part, and the scan goes on after it. The places are taken in order,
\* half by half.
RECURSIVE scan(_, _, _, _, _)
scan(st, text, separator, lo, hi) ==
    IF lo > hi THEN st
    ELSE IF lo = hi
    THEN IF lo >= st.next /\ StandsAt(text, separator, lo)
         THEN [ends |-> Append(st.ends, lo + Len(separator) - 1),
               next |-> lo + Len(separator)]
         ELSE st
    ELSE LET mid == (lo + hi) \div 2
             left == scan(st, text, separator, lo, mid)
         IN  IF left.next > hi THEN left
             ELSE scan(left, text, separator, mid + 1, hi)

\* text.split(separator) with the separator put back at the end of each
\* part but the last: the text is cut after each occurrence of the
\* separator, the occurrences taken from the left, none overlapping another.
split_with_separator(text, separator) ==
    LET ends == scan([ends |-> <<>>, next |-> 1], text, separator,
                     1, Len(text)).ends
    IN  [k \in 1..(Len(ends) + 1) |->
            SubSeq(text,
                   IF k = 1 THEN 1 ELSE ends[k - 1] + 1,
                   IF k <= Len(ends) THEN ends[k] ELSE Len(text))]

\* text.split(separator), the separator not put back.
split_dropping_separator(text, separator) ==
    LET parts == split_with_separator(text, separator) IN
    SelectSeq([k \in 1..Len(parts) |->
                  IF k < Len(parts)
                  THEN SubSeq(parts[k], 1, Len(parts[k]) - Len(separator))
                  ELSE parts[k]],
              LAMBDA part : part # <<>>)

\* split_by_separator(text, separator)
split_by_separator(text, separator) ==
    IF separator = <<>>
    THEN [i \in 1..Len(text) |-> <<text[i]>>]
    ELSE SelectSeq(split_with_separator(text, separator),
                   LAMBDA part : part # <<>>)

\* get_overlap(text, overlap_tokens); text[-0:] is the whole text.
get_overlap(text, overlap_tokens) ==
    LET overlap_chars == overlap_tokens * 3 IN
    IF Len(text) <= overlap_chars THEN text
    ELSE IF overlap_chars = 0 THEN text
    ELSE SubSeq(text, Len(text) - overlap_chars + 1, Len(text))

\* A chunk of recursive_chunk, with the path that produced it: forced for
\* the chunks of force_split.
Chunk(text, forced) == [text |-> text, forced |-> forced]

\* What a call gives: its chunks, or hang when it never returns.
Returns(chunks) == [hang |-> FALSE, chunks |-> chunks]
Hangs == [hang |-> TRUE, chunks |-> <<>>]

\* The while loop of force_split from `start` on (start counted from 0),
\* for a stride that is positive.
RECURSIVE force_split_from(_, _, _, _)
force_split_from(text, start, char_size, char_overlap) ==
    IF start < Len(text)
    THEN LET end == start + char_size
             chunk == strip(SubSeq(text, start + 1, Min(end, Len(text))))
         IN  (IF chunk # <<>> THEN <<Chunk(chunk, TRUE)>> ELSE <<>>)
                \o force_split_from(text, end - char_overlap,
                                    char_size, char_overlap)
    ELSE <<>>

\* force_split whose start never advances.
force_split_never_advances(text, chunk_size, chunk_overlap) ==
    IF Len(text) = 0 THEN Returns(<<>>) ELSE Hangs

\* force_split(text, chunk_size, chunk_overlap): with end - char_overlap
\* <= start the loop never ends (start never passes len(text)).
force_split(text, chunk_size, chunk_overlap) ==
    LET char_size == chunk_size * 3
        char_overlap == chunk_overlap * 3
    IN  IF Len(text) = 0 THEN Returns(<<>>)
        ELSE IF char_size - char_overlap <= 0 THEN Hangs
        ELSE Returns(force_split_from(text, 0, char_size, char_overlap))

\* The loop "for part in parts" of recursive_chunk at some point: the
\* chunks and the buffer, or hang when a call inside never returned.
Looping(chunks, current_chunk) ==
    [hang |-> FALSE, chunks |-> chunks, current_chunk |-> current_chunk]

RECURSIVE recursive_chunk(_, _, _, _)
\* One pass of the body of the loop, for `part`.
for_part(st, part, chunk_size, chunk_overlap, remaining_separators) ==
    LET current_chunk == st.current_chunk
        chunks == st.chunks
        part_tokens == count_tokens_approx(part)
        current_tokens == count_tokens_approx(current_chunk)
        stripped == strip(current_chunk)
    IN  IF st.hang THEN st
        ELSE IF part_tokens > chunk_size
        THEN LET sub_chunks == recursive_chunk(part, chunk_size, chunk_overlap,
                                               remaining_separators)
             IN  IF sub_chunks.hang THEN [st EXCEPT !.hang = TRUE]
                 ELSE IF stripped # <<>>
                 THEN Looping(Append(chunks, Chunk(stripped, FALSE))
                                 \o sub_chunks.chunks, <<>>)
                 ELSE Looping(chunks \o sub_chunks.chunks, current_chunk)
        ELSE IF current_tokens + part_tokens > chunk_size /\ stripped # <<>>
        THEN Looping(Append(chunks, Chunk(stripped, FALSE)),
                     get_overlap(current_chunk, chunk_overlap) \o part)
        ELSE Looping(chunks, current_chunk \o part)

\* The passes of the loop for the parts lo..hi, in order (half by half).
RECURSIVE for_parts(_, _, _, _, _, _, _)
for_parts(st, parts, lo, hi, chunk_size, chunk_overlap, remaining_separators) ==
    IF lo > hi THEN st
    ELSE IF lo = hi
    THEN for_part(st, parts[lo], chunk_size, chunk_overlap, remaining_separators)
    ELSE LET mid == (lo + hi) \div 2
             left == for_parts(st, parts, lo, mid, chunk_size, chunk_overlap,
                               remaining_separators)
         IN  IF left.hang THEN left
             ELSE for_parts(left, parts, mid + 1, hi, chunk_size,
                            chunk_overlap, remaining_separators)

\* recursive_chunk(text, chunk_size, chunk_overlap, separators)
recursive_chunk(text, chunk_size, chunk_overlap, separators) ==
    IF count_tokens_approx(text) <= chunk_size
    THEN Returns(IF strip(text) # <<>> THEN <<Chunk(strip(text), FALSE)>>
                 ELSE <<>>)
    ELSE IF separators = <<>>
    THEN force_split(text, chunk_size, chunk_overlap)
    ELSE LET parts == split_by_separator(text, separators[1])
             st == for_parts(Looping(<<>>, <<>>), parts, 1, Len(parts),
                             chunk_size, chunk_overlap, Tail(separators))
         IN  IF st.hang THEN Hangs
             ELSE Returns(IF strip(st.current_chunk) # <<>>
                          THEN Append(st.chunks,
                                      Chunk(strip(st.current_chunk), FALSE))
                          ELSE st.chunks)

\* chunk_document(text, source, chunk_size, chunk_overlap): the chunks with
\* their metadata (the source is left out), or the call never returning.
chunk_document(text, chunk_size, chunk_overlap) ==
    LET r == recursive_chunk(text, chunk_size, chunk_overlap,
                             DEFAULT_SEPARATORS)
    IN  [hang |-> r.hang,
         result |-> [i \in 1..Len(r.chunks) |->
                       [text |-> r.chunks[i].text,
                        chunk_index |-> i - 1,
                        total_chunks |-> Len(r.chunks),
                        token_count_approx |->
                            count_tokens_approx(r.chunks[i].text),
                        forced |-> r.chunks[i].forced]]]

\* The record of a call of chunk_document: its arguments and what it gave
\* (err is "hang" for a call that never returns).
ChunkCall(cs, chunk_size, chunk_overlap) ==
    LET r == chunk_document(Document(cs), chunk_size, chunk_overlap) IN
    [op |-> "chunk_document", err |-> IF r.hang THEN "hang" ELSE "none",
     text |-> Document(cs), chunk_size |-> chunk_size,
     chunk_overlap |-> chunk_overlap, result |-> r.result]

\* Nothing is running and nothing is stored.
InitIdle ==
    /\ requests = NoRequests
    /\ up = FALSE
    /\ faiss_index = None
    /\ metadata = <<>>
    /\ faiss_file = AbsentIndexFile
    /\ metadata_file = AbsentMetadataFile
    /\ indexing_status = InitialStatus
    /\ ret = Ret("init", "none")
    /\ hist = FreshHist

\* chunk_document is called once, with some document text and some
\* configuration.
ChunkDocument ==
    /\ UNCHANGED requests
    /\ ret.op = "init"
    /\ \E cs \in Texts, chunk_size \in 1..MaxChunkSize,
          chunk_overlap \in 0..MaxOverlap :
          ret' = ChunkCall(cs, chunk_size, chunk_overlap)
    /\ UNCHANGED <<up, store, disk, indexing_status, hist>>

NextChunker == ChunkDocument

\* The chunker on its own.
SpecChunker == InitIdle /\ [][NextChunker]_vars

\* 0 <= chunk_overlap < chunk_size
ValidConfig == 0 <= ret.chunk_overlap /\ ret.chunk_overlap < ret.chunk_size

\* chunk_document has returned.
Chunked == ret.op = "chunk_document" /\ ret.err = "none"

\* C11: chunk_document with chunk_overlap >= chunk_size is rejected with a
\* configuration error, whatever the text: it neither returns segments nor
\* runs the loop of force_split with a stride that is not positive.
C11_InvalidConfigRejected ==
    (ret.op = "chunk_document" /\ ret.chunk_overlap >= ret.chunk_size)
        => ret.err = "ConfigError"

\* C12: with 0 <= chunk_overlap < chunk_size, every returned segment that
\* force_split did not produce has len // 3 <= chunk_size, and every one it
\* produced is non-empty and at most chunk_size*3 + chunk_overlap*3
\* characters long.
C12_SegmentsBounded ==
    (Chunked /\ ValidConfig)
        => \A i \in 1..Len(ret.result) :
              LET seg == ret.result[i] IN
              IF seg.forced
              THEN /\ Len(seg.text) >= 1
                   /\ Len(seg.text) <= ret.chunk_size * 3 + ret.chunk_overlap * 3
              ELSE count_tokens_approx(seg.text) <= ret.chunk_size

\* The places of the document a segment holds.
Places(seg) == {seg.text[j].p : j \in 1..Len(seg.text)}

\* C13: with 0 <= chunk_overlap < chunk_size, every character of the text
\* that is not whitespace is in some returned segment, every segment is a
\* span of the text (its characters, in a row), and the spans come in the
\* order of the text: neither the start nor the end of a span lies before
\* that of the span before it.
C13_Coverage ==
    (Chunked /\ ValidConfig)
        => LET segs == ret.result IN
           /\ \A p \in 1..Len(ret.text) :
                 ret.text[p].c \notin Whitespace
                    => \E i \in 1..Len(segs) : p \in Places(segs[i])
           /\ \A i \in 1..Len(segs) :
                 \A j \in 1..Len(segs[i].text) :
                    /\ segs[i].text[j] = ret.text[segs[i].text[j].p]
                    /\ j > 1 => segs[i].text[j].p = segs[i].text[j - 1].p + 1
           /\ \A i \in 2..Len(segs) :
                 /\ segs[i - 1].text[1].p <= segs[i].text[1].p
                 /\ segs[i - 1].text[Len(segs[i - 1].text)].p
                       <= segs[i].text[Len(segs[i].text)].p

\* C13, witness: a buffer was flushed and the next one seeded with its
\* tail, and whitespace was trimmed away between two segments.
C13_Witness ==
    /\ Chunked
    /\ ValidConfig
    /\ ret.chunk_overlap >= 1
    /\ \E i \in 2..Len(ret.result) :
          /\ ~ret.result[i].forced
          /\ ~ret.result[i - 1].forced
          /\ Places(ret.result[i]) \cap Places(ret.result[i - 1]) # {}
    /\ \E p \in 2..(Len(ret.text) - 1) :
          \A i \in 1..Len(ret.result) : p \notin Places(ret.result[i])

\* C14: the segments chunk_document returns have chunk_index 0, 1, ...,
\* n-1 in this order and total_chunks n, n their number; the text of each
\* is not empty and neither starts nor ends with whitespace; a text that is
\* empty or all whitespace gives no segment.
C14_SegmentsNumbered ==
    Chunked
        => LET segs == ret.result
               n == Len(segs)
           IN  /\ \A i \in 1..n :
                     /\ segs[i].chunk_index = i - 1
                     /\ segs[i].total_chunks = n
                     /\ segs[i].text # <<>>
                     /\ segs[i].text[1].c \notin Whitespace
                     /\ segs[i].text[Len(segs[i].text)].c \notin Whitespace
               /\ (\A p \in 1..Len(ret.text) : ret.text[p].c \in Whitespace)
                     => n = 0

\* C14, witness: a text with whitespace around its words was cut into
\* three segments or more.
C14_Witness ==
    /\ Chunked
    /\ Len(ret.result) >= 3
    /\ ret.text[1].c \in Whitespace
    /\ ret.text[Len(ret.text)].c \in Whitespace
    /\ ret.result[3].chunk_index = 2
\* ------------------------------------------------- the 1000 characters run
\* The document of the end-to-end scenario: 1000 characters, cut with
\* chunk_size=100 and chunk_overlap=20 (the configuration of the module's
\* own example run).
ScenarioLen == 1000
ScenarioChunkSize == 100
ScenarioOverlap == 20

\* The longest word of a scenario text, and the longest gap between two.
MaxWord == 2
MaxGap == 2
\* The number of lengths the blank start of a scenario text can have.
MaxBlank == 6

\* The pattern repeated up to n characters.
Repeat(pattern, n) == [i \in 1..n |-> pattern[((i - 1) % Len(pattern)) + 1]]

\* A word of w times the letter, and a gap of g times the blank after it.
WordAndGap(letter, w, blank, g) ==
    [i \in 1..(w + g) |-> IF i <= w THEN letter ELSE blank]

\* The scenario texts: some spaces, then words of one length with gaps of
\* one length (no gap: one long word; no word: whitespace) up to the
\* 1000th character.
ScenarioTexts ==
    LET patterns == {WordAndGap(letter, w, blank, g) :
                        letter \in Chars \ Whitespace, blank \in Whitespace,
                        w \in 0..MaxWord, g \in 0..MaxGap} \ {<<>>}
    IN  {Repeat(<<" ">>, b * (ScenarioLen \div MaxBlank))
            \o Repeat(pattern, ScenarioLen - b * (ScenarioLen \div MaxBlank)) :
                b \in 0..MaxBlank, pattern \in patterns}

\* chunk_document is called once on a scenario text.
ChunkScenario ==
    /\ UNCHANGED requests
    /\ ret.op = "init"
    /\ \E cs \in ScenarioTexts :
          ret' = ChunkCall(cs, ScenarioChunkSize, ScenarioOverlap)
    /\ UNCHANGED <<up, store, disk, indexing_status, hist>>

NextScenario == ChunkScenario

SpecScenario == InitIdle /\ [][NextScenario]_vars

\* The number of characters from the first to the last character of the
\* text that is not whitespace, 0 when there is none.
Extent(text) ==
    LET stripped == strip(text) IN
    IF stripped = <<>> THEN 0
    ELSE stripped[Len(stripped)].p - stripped[1].p + 1

\* The call of the scenario has returned.
ScenarioChunked ==
    /\ Chunked
    /\ Len(ret.text) = ScenarioLen
    /\ ret.chunk_size = ScenarioChunkSize
    /\ ret.chunk_overlap = ScenarioOverlap

\* C15, as stated: every text of 1000 characters, cut with chunk_size=100
\* and chunk_overlap=20, gives two segments or more, texts of whitespace
\* included.
C15_AtLeastTwoSegments == ScenarioChunked => Len(ret.result) >= 2

\* C15, amended: a text of 1000 characters, cut with chunk_size=100 and
\* chunk_overlap=20, gives two segments or more when its first and its
\* last character that is not whitespace are more than
\* (chunk_size + chunk_overlap) * 3 + 2 = 362 characters apart; a text of
\* whitespace gives no segment.
C15_TwoSegmentsOfLongExtent ==
    ScenarioChunked
        => /\ Extent(ret.text)
                 > (ScenarioChunkSize + ScenarioOverlap) * 3 + 2
              => Len(ret.result) >= 2
           /\ Extent(ret.text) = 0 => Len(ret.result) = 0

\* C15, witness: a text that starts with whitespace and has words was cut
\* into two segments or more.
C15_Witness ==
    /\ ScenarioChunked
    /\ ret.text[1].c \in Whitespace
    /\ Extent(ret.text) > (ScenarioChunkSize + ScenarioOverlap) * 3 + 2
    /\ \E p \in 1..Len(ret.text) : ret.text[p].c = "a"
    /\ \E p \in 1..Len(ret.text) :
          p > ScenarioLen - Extent(ret.text) /\ ret.text[p].c = " "
    /\ Len(ret.result) >= 2

\* ------------------------------------------------------- progress record
\* The error messages of the calls below.
Messages == {"x", "y"}

\* The steps a caller may name: the five of the record, one the record
\* does not have, and none.
NamedSteps == StepNames \cup {"upload", "None"}

\* upload_files, after reset_indexing_status:
\* indexing_status["active"] = True.
activate(status_rec) == [status_rec EXCEPT !.active = TRUE]

\* set_indexing_error leaving the record active.
set_indexing_error_stays_active(status_rec, error_message, failed_step) ==
    [status_rec EXCEPT !.error = error_message]

\* set_indexing_error(error_message, failed_step)
set_indexing_error(status_rec, error_message, failed_step) ==
    LET st == [status_rec EXCEPT !.error = error_message, !.active = FALSE]
    IN  IF failed_step # "None" /\ failed_step \in StepNames
        THEN [st EXCEPT !.steps[failed_step] = "error"]
        ELSE st

\* The record of a call on the progress record, and of the call before it.
TrackerCall(op, step, status, message, after) ==
    [op |-> op, step |-> step, status |-> status, message |-> message,
     after |-> after]

\* reset_indexing_status() and the activation that follows it, as
\* upload_files starts a run.
StartRun ==
    /\ UNCHANGED requests
    /\ indexing_status' = activate(InitialStatus)
    /\ ret' = TrackerCall("start", "None", "None", "None", ret.op)
    /\ UNCHANGED <<up, store, disk, hist>>

\* update_step_status(step, status)
UpdateStep(step, status) ==
    /\ UNCHANGED requests
    /\ indexing_status' = update_step_status(indexing_status, step, status)
    /\ ret' = TrackerCall("update", step, status, "None", ret.op)
    /\ UNCHANGED <<up, store, disk, hist>>

\* set_indexing_error(error_message, failed_step)
Fail(error_message, failed_step) ==
    /\ UNCHANGED requests
    /\ indexing_status' =
           set_indexing_error(indexing_status, error_message, failed_step)
    /\ ret' = TrackerCall("fail", failed_step, "None", error_message, ret.op)
    /\ UNCHANGED <<up, store, disk, hist>>

\* The calls on the progress record, in any order.
NextTracker ==
    \/ StartRun
    \/ \E step \in StepNames \cup {"upload"},
          status \in {"processing", "completed"} : UpdateStep(step, status)
    \/ \E error_message \in Messages, failed_step \in NamedSteps :
          Fail(error_message, failed_step)

SpecTracker == InitIdle /\ [][NextTracker]_vars

\* C16: right after a start followed by set_indexing_error(message, step)
\* for one of the five steps, with no call in between, the record is not
\* active, the step has status 'error', error is the message, and the four
\* other steps are still 'pending'.
C16_StartThenFail ==
    (ret.op = "fail" /\ ret.after = "start" /\ ret.step \in StepNames) =>
        /\ indexing_status.active = FALSE
        /\ indexing_status.steps[ret.step] = "error"
        /\ indexing_status.error = ret.message
        /\ \A s \in StepNames \ {ret.step} :
              indexing_status.steps[s] = "pending"

C16_Witness ==
    /\ ret.op = "fail"
    /\ ret.after = "start"
    /\ ret.step = "parsing"
    /\ ret.message = "x"
    /\ indexing_status.error = "x"
    /\ indexing_status.steps["parsing"] = "error"

\* ------------------------------------------------------------ upload run
\* The most files of one upload request.
MaxFiles == 2
\* The most chunks chunk_document makes of one file here.
MaxChunks == 1

\* Some of ALLOWED_EXTENSIONS.
ALLOWED_EXTENSIONS == {"pdf", "txt", "md"}

\* The files of the requests: two that are accepted and one that is not.
Files ==
    {[filename |-> "a", ext |-> "txt"], [filename |-> "b", ext |-> "txt"],
     [filename |-> "c", ext |-> "exe"]}

\* allowed_file(filename)
allowed_file(file) == file.ext \in ALLOWED_EXTENSIONS

\* The message of a file that could not be processed (line 505, in
\* English) and that of a failed indexing (line 527).
ProcessingError(file) ==
    "Error processing " \o file.filename \o "." \o file.ext
IndexingError == "Indexing error"

\* Request r is at `pc` in upload_files.
At(r, pc) == up /\ requests[r].pc = pc

\* The progress record is written as `status_rec` by request r, which
\* goes on to `pc`; nothing else changes.
Writes(r, status_rec, pc) ==
    /\ indexing_status' = status_rec
    /\ requests' = [requests EXCEPT ![r].pc = pc]
    /\ UNCHANGED <<up, store, disk, ret, hist>>

\* The request returns.
Returned(err, count) == [Ret("upload_files", err) EXCEPT !.count = count]

\* An upload request arrives with its files; without files it is answered
\* with 400 at once.
Receive(r, files) ==
    /\ At(r, "idle")
    /\ requests' = [requests EXCEPT ![r] =
           [IdleRequest EXCEPT
               !.pc = IF files = <<>> THEN "done" ELSE "reset",
               !.uploaded = files,
               !.files = files,
               !.response = IF files = <<>> THEN "400" ELSE "none"]]
    /\ ret' = IF files = <<>> THEN Returned("400", 0) ELSE ret
    /\ UNCHANGED <<up, store, disk, indexing_status, hist>>

\* reset_indexing_status()
Reset(r) ==
    /\ At(r, "reset")
    /\ Writes(r, InitialStatus, "activate")

\* indexing_status["active"] = True
Activate(r) ==
    /\ At(r, "activate")
    /\ Writes(r, activate(indexing_status), "documents")

\* update_step_status("documents", "processing")
DocumentsProcessing(r) ==
    /\ At(r, "documents")
    /\ Writes(r, update_step_status(indexing_status, "documents", "processing"),
              "documents_completed")

\* update_step_status("documents", "completed")
DocumentsCompleted(r) ==
    /\ At(r, "documents_completed")
    /\ Writes(r, update_step_status(indexing_status, "documents", "completed"),
              "parsing")

\* update_step_status("parsing", "processing")
ParsingProcessing(r) ==
    /\ At(r, "parsing")
    /\ Writes(r, update_step_status(indexing_status, "parsing", "processing"),
              "file")

\* The entry of processed_files for a file of which `chunks` chunks were
\* made.
chunks_entry(file, chunks) ==
    [filename |-> file.filename, chunks |-> chunks, error |-> "None"]

\* An entry for a file that failed, counted as one of a chunk.
error_as_chunks(file, error) == chunks_entry(file, 1)

\* The entry of processed_files for a file that could not be processed.
error_entry(file, error) ==
    [filename |-> file.filename, chunks |-> 0, error |-> error]

\* The loop takes the next file: one that is not allowed is passed over;
\* file.save raises, outside the try, and the exception leaves
\* upload_files; parse_file raises and the error is recorded; or the file
\* is parsed.
ParseFile(r, how) ==
    /\ At(r, "file")
    /\ requests[r].files # <<>>
    /\ LET file == Head(requests[r].files)
           rest == Tail(requests[r].files)
       IN  IF ~allowed_file(file)
           THEN /\ how = "ok"
                /\ requests' = [requests EXCEPT ![r].files = rest]
                /\ UNCHANGED <<indexing_status, ret>>
           ELSE IF how = "save"
           THEN /\ requests' = [requests EXCEPT ![r].pc = "done",
                                                ![r].response = "exception"]
                /\ ret' = Returned("exception", 0)
                /\ UNCHANGED indexing_status
           ELSE IF how = "parse_file"
           THEN /\ indexing_status' =
                       set_indexing_error(indexing_status,
                                          ProcessingError(file), "parsing")
                /\ requests' = [requests EXCEPT
                       ![r].files = rest,
                       ![r].processed_files =
                           Append(@, error_entry(file, ProcessingError(file))),
                       ![r].failed = TRUE]
                /\ UNCHANGED ret
           ELSE /\ indexing_status' =
                       update_step_status(indexing_status, "parsing",
                                          "processing")
                /\ requests' = [requests EXCEPT ![r].pc = "chunking"]
                /\ UNCHANGED ret
    /\ UNCHANGED <<up, store, disk, hist>>

\* update_step_status("chunking", "processing") and chunk_document, which
\* makes n chunks of the text of the file.
ChunkFile(r, n) ==
    /\ At(r, "chunking")
    /\ indexing_status' =
           update_step_status(indexing_status, "chunking", "processing")
    /\ requests' = [requests EXCEPT
           ![r].pc = "file",
           ![r].files = Tail(@),
           ![r].all_chunks = @ \o [i \in 1..n |-> 0],
           ![r].processed_files =
               Append(@, chunks_entry(Head(requests[r].files), n))]
    /\ UNCHANGED <<up, store, disk, ret, hist>>

\* After the loop: update_step_status("parsing", "completed")
ParsingCompleted(r) ==
    /\ At(r, "file")
    /\ requests[r].files = <<>>
    /\ Writes(r, update_step_status(indexing_status, "parsing", "completed"),
              "chunking_completed")

\* update_step_status("chunking", "completed"), then `if all_chunks:`
ChunkingCompleted(r) ==
    /\ At(r, "chunking_completed")
    /\ Writes(r, update_step_status(indexing_status, "chunking", "completed"),
              IF requests[r].all_chunks # <<>> THEN "embedding" ELSE "finish")

\* create_or_update_index: update_step_status("embedding", "processing")
EmbeddingProcessing(r) ==
    /\ At(r, "embedding")
    /\ Writes(r, update_step_status(indexing_status, "embedding", "processing"),
              "embed_texts")

\* embedder.embed_texts returns, and the step is completed, or raises,
\* and upload_files records the error and answers 500.
Embed(r, raises) ==
    /\ At(r, "embed_texts")
    /\ IF raises
       THEN /\ indexing_status' =
                   set_indexing_error(indexing_status, IndexingError,
                                      "embedding")
            /\ requests' = [requests EXCEPT ![r].pc = "done",
                                            ![r].response = "500",
                                            ![r].failed = TRUE]
            /\ ret' = Returned("500", 0)
       ELSE /\ indexing_status' =
                   update_step_status(indexing_status, "embedding",
                                      "completed")
            /\ requests' = [requests EXCEPT ![r].pc = "faiss"]
            /\ UNCHANGED ret
    /\ UNCHANGED <<up, store, disk, hist>>

\* update_step_status("faiss", "processing")
FaissProcessing(r) ==
    /\ At(r, "faiss")
    /\ Writes(r, update_step_status(indexing_status, "faiss", "processing"),
              "add")

\* The vectors, of dimension dim, are added to the index, the entries to
\* the metadata and both are saved; faiss_index.add or save_index may
\* raise, and upload_files then records the error and answers 500.
AddAndSave(r, dim, stop) ==
    /\ At(r, "add")
    /\ LET texts == requests[r].all_chunks
           index0 == IF faiss_index.none THEN IndexFlatL2(dim) ELSE faiss_index
           index1 == add(index0, embed_texts(texts, dim))
           metadata1 == metadata \o new_entries(texts, Len(texts), ntotal(index0))
           files == save_index(index1, metadata1, stop, faiss_file, metadata_file)
           failure == set_indexing_error(indexing_status, IndexingError,
                                         "embedding")
       IN  IF ~accepts(index0, dim)
           THEN /\ stop = "done"
                /\ indexing_status' = failure
                /\ requests' = [requests EXCEPT ![r].pc = "done",
                                                ![r].response = "500",
                                                ![r].failed = TRUE]
                /\ ret' = Returned("500", 0)
                /\ UNCHANGED <<up, store, disk, hist>>
           ELSE /\ faiss_index' = index1
                /\ metadata' = metadata1
                /\ faiss_file' = files[1]
                /\ metadata_file' = files[2]
                /\ UNCHANGED up
                /\ IF stop # "done"
                   THEN /\ indexing_status' = failure
                        /\ requests' = [requests EXCEPT ![r].pc = "done",
                                                        ![r].response = "500",
                                                        ![r].failed = TRUE]
                        /\ ret' = Returned("500", 0)
                        /\ hist' = SpoiltHist
                   ELSE /\ requests' = [requests EXCEPT
                               ![r].pc = "faiss_completed",
                               ![r].indexed_chunks = Len(texts)]
                        /\ hist' = NextHist(hist, Len(texts), Len(texts))
                        /\ UNCHANGED <<indexing_status, ret>>

\* update_step_status("faiss", "completed")
FaissCompleted(r) ==
    /\ At(r, "faiss_completed")
    /\ Writes(r, update_step_status(indexing_status, "faiss", "completed"),
              "finish")

\* indexing_status["active"] = False, and the request is answered.
Finish(r) ==
    /\ At(r, "finish")
    /\ indexing_status' = [indexing_status EXCEPT !.active = FALSE]
    /\ requests' = [requests EXCEPT ![r].pc = "done", ![r].response = "200"]
    /\ ret' = Returned("none", requests[r].indexed_chunks)
    /\ UNCHANGED <<up, store, disk, hist>>

\* The dimension of the vectors of the embedder of the server.
EmbedderDims == {1}

\* The server is running on an empty index directory.
InitRun ==
    /\ requests = NoRequests
    /\ up = TRUE
    /\ faiss_index = None
    /\ metadata = <<>>
    /\ faiss_file = AbsentIndexFile
    /\ metadata_file = AbsentMetadataFile
    /\ indexing_status = InitialStatus
    /\ ret = Ret("init", "none")
    /\ hist = FreshHist

\* What the thread serving request r does next; a step is what it does
\* holding indexing_lock, with what it does alone before it.
Serve(r) ==
        \/ \E files \in SeqsOf(Files, 0, MaxFiles) : Receive(r, files)
        \/ Reset(r)
        \/ Activate(r)
        \/ DocumentsProcessing(r)
        \/ DocumentsCompleted(r)
        \/ ParsingProcessing(r)
        \/ \E how \in {"ok", "save", "parse_file"} : ParseFile(r, how)
        \/ \E n \in 0..MaxChunks : ChunkFile(r, n)
        \/ ParsingCompleted(r)
        \/ ChunkingCompleted(r)
        \/ EmbeddingProcessing(r)
        \/ \E raises \in BOOLEAN : Embed(r, raises)
        \/ FaissProcessing(r)
        \/ \E dim \in EmbedderDims, stop \in {"done", "between"} :
              AddAndSave(r, dim, stop)
        \/ FaissCompleted(r)
        \/ Finish(r)

\* Each request is served in a thread of its own.
NextRun == \E r \in Requests : Serve(r)

SpecRun == InitRun /\ [][NextRun]_vars

\* One upload request, served alone.
NextUpload == Serve(1)

SpecUpload == InitRun /\ [][NextUpload]_vars

\* Request r takes a step.
Stepping(r) == requests'[r] # requests[r]

\* No other request is being served while request r takes its step.
Alone(r) ==
    \A o \in Requests \ {r} :
        requests[o].pc \in {"idle", "done"} /\ requests'[o] = requests[o]

\* A step of the run of request r, served alone, after its start.
RunStep(r) ==
    /\ Stepping(r)
    /\ Alone(r)
    /\ requests[r].pc \notin {"idle", "reset"}

\* C17: once an error is recorded during a run, no later step of that run
\* changes the error field: it keeps the first message until the next
\* start.
C17_FirstErrorKept ==
    [][\A r \in Requests :
          (RunStep(r) /\ indexing_status.error # "None") =>
              indexing_status'.error = indexing_status.error]_vars

\* C18: a run that has recorded an error takes no further step of the
\* pipeline: none of its later steps sets a step to 'processing' or
\* 'completed', adds to its chunks, or changes the index or the metadata.
C18_NothingAfterFailure ==
    [][\A r \in Requests :
          (RunStep(r) /\ requests[r].failed) =>
              /\ \A s \in StepNames :
                    indexing_status'.steps[s] \in {"processing", "completed"}
                        => indexing_status'.steps[s] = indexing_status.steps[s]
              /\ requests'[r].all_chunks = requests[r].all_chunks
              /\ store' = store]_vars

\* How far a status is along pending -> processing -> completed | error.
Progress(status) ==
    CASE status = "pending" -> 0
      [] status = "processing" -> 1
      [] OTHER -> 2

\* C19: within a run no step status goes back, and one that is
\* 'completed' or 'error' does not change any more.
C19_StatusesMoveForward ==
    [][\A r \in Requests : RunStep(r) =>
          \A s \in StepNames :
              LET old == indexing_status.steps[s]
                  new == indexing_status'.steps[s]
              IN  /\ Progress(old) <= Progress(new)
                  /\ old \in {"completed", "error"} => new = old]_vars

\* Request r is between the start and the end of its run.
InProgress(r) == requests[r].pc \notin {"idle", "reset", "done"}

\* C20: two requests are never both between the start and the end of
\* their runs.
C20_OneRunAtATime ==
    \A r1, r2 \in Requests : InProgress(r1) /\ InProgress(r2) => r1 = r2

WordTexts == SeqsOf({"a", " "}, 1, MaxWordsLen)

\* The last overlap_tokens * 3 characters of the text, or the whole text
\* when it is shorter.
overlap_tail(text, overlap_tokens) ==
    IF Len(text) <= overlap_tokens * 3 THEN text
    ELSE SubSeq(text, Len(text) - overlap_tokens * 3 + 1, Len(text))

\* The loop of recursive_chunk over the parts of a text of words, the
\* separator being the blank, taken at its pass number i: the buffer
\* before the pass, the part, and the buffer after it.
LoopPass(cs, chunk_size, chunk_overlap, i) ==
    LET text == Document(cs)
        parts == split_by_separator(text, <<" ">>)
        before == for_parts(Looping(<<>>, <<>>), parts, 1, i - 1,
                            chunk_size, chunk_overlap, <<>>)
        after == for_part(before, parts[i], chunk_size, chunk_overlap, <<>>)
    IN  [op |-> "for_part", err |-> "none", text |-> text,
         chunk_size |-> chunk_size, chunk_overlap |-> chunk_overlap,
         before |-> before, part |-> parts[i], after |-> after]

\* recursive_chunk is at some pass of its loop over the parts of a text
\* that is too long for one chunk.
ChunkPart ==
    /\ UNCHANGED requests
    /\ ret.op = "init"
    /\ \E cs \in WordTexts, chunk_size \in 1..MaxChunkSize,
          chunk_overlap \in 0..MaxOverlap :
          /\ count_tokens_approx(cs) > chunk_size
          /\ \E i \in 1..Len(split_by_separator(Document(cs), <<" ">>)) :
                ret' = LoopPass(cs, chunk_size, chunk_overlap, i)
    /\ UNCHANGED <<up, store, disk, indexing_status, hist>>

NextLoop == ChunkPart

\* The loop of the chunker, pass by pass.
SpecLoop == InitIdle /\ [][NextLoop]_vars

\* The pass flushed the buffer because the part would not fit.
Flushed ==
    /\ ret.op = "for_part"
    /\ ~ret.before.hang
    /\ count_tokens_approx(ret.part) <= ret.chunk_size
    /\ count_tokens_approx(ret.before.current_chunk)
          + count_tokens_approx(ret.part) > ret.chunk_size
    /\ strip(ret.before.current_chunk) # <<>>

\* C27: when the buffer is flushed because the next part would push it
\* over chunk_size, the next buffer is the last chunk_overlap * 3
\* characters of the flushed, untrimmed buffer (the whole of it when it is
\* shorter) followed by the part.
C27_OverlapInjected ==
    Flushed =>
        ret.after.current_chunk
            = overlap_tail(ret.before.current_chunk, ret.chunk_overlap)
                 \o ret.part

\* ------------------------------------------------ upload run: its result
\* The chunks counted in the entries of processed_files.
RECURSIVE SumChunks(_)
SumChunks(entries) ==
    IF entries = <<>> THEN 0
    ELSE entries[1].chunks + SumChunks(Tail(entries))

\* The request has been answered by upload_files itself.
Answered(r) ==
    requests[r].pc = "done" /\ requests[r].response \in {"200", "500"}

\* C23: a file that fails to be parsed or chunked does not end the batch:
\* when upload_files answers, processed_files holds one entry for each
\* allowed file of the request, in order, with its chunk count or its
\* error; the chunks of every file that succeeded were collected, and on
\* success all of them were indexed.
C23_BatchContinues ==
    \A r \in Requests : Answered(r) =>
        LET allowed == SelectSeq(requests[r].uploaded, allowed_file)
            entries == requests[r].processed_files
        IN  /\ Len(entries) = Len(allowed)
            /\ \A i \in 1..Len(entries) :
                  /\ entries[i].filename = allowed[i].filename
                  /\ entries[i].error # "None" => entries[i].chunks = 0
            /\ Len(requests[r].all_chunks) = SumChunks(entries)
            /\ requests[r].response = "200"
                  => requests[r].indexed_chunks = SumChunks(entries)

\* C23, witness: the first file failed, the second was chunked and its
\* chunks were indexed.
C23_Witness ==
    \E r \in Requests :
        /\ Answered(r)
        /\ requests[r].response = "200"
        /\ Len(requests[r].processed_files) = 2
        /\ requests[r].processed_files[1].error # "None"
        /\ requests[r].processed_files[2].error = "None"
        /\ requests[r].processed_files[2].chunks >= 1
        /\ requests[r].indexed_chunks >= 1
        /\ ntotal(faiss_index) >= 1

\* No request is being served, and a run has been started.
RunsEnded ==
    /\ \A r \in Requests : requests[r].pc \in {"idle", "done"}
    /\ \E r \in Requests : requests[r].response \in {"200", "500", "exception"}

\* C28: when a run started by upload_files has ended, however the request
\* finished, the record is not active.
C28_RunEndsInactive == RunsEnded => ~indexing_status.active

\* C29: within a run, 'parsing' becomes 'processing' only when 'documents'
\* is 'completed', 'embedding' only when 'parsing' and 'chunking' are
\* 'completed', and 'faiss' only when 'embedding' is 'completed'.
C29_PipelineOrder ==
    [][\A r \in Requests :
          (Stepping(r) /\ requests[r].pc \notin {"idle", "reset"}) =>
          LET old == indexing_status.steps
              new == indexing_status'.steps
              Entered(s) == new[s] = "processing" /\ old[s] # "processing"
          IN  /\ Entered("parsing") => old["documents"] = "completed"
              /\ Entered("embedding") =>
                    old["parsing"] = "completed" /\ old["chunking"] = "completed"
              /\ Entered("faiss") => old["embedding"] = "completed"]_vars

\* C30: when a run has ended with an answer of upload_files and the record
\* is not active, no step is left 'processing'.
C30_NoStepLeftProcessing ==
    (RunsEnded /\ (\A r \in Requests : requests[r].response # "exception")
        /\ ~indexing_status.active)
        => \A s \in StepNames : indexing_status.steps[s] # "processing"

\* ------------------------------------------- progress record: snapshots
\* The most calls on the progress record in one behaviour.
MaxCalls == 3

\* The thread that makes the calls on the record, and the one that serves
\* /api/progress.
Caller == 1
Observer == 2

\* The record with the fields the snapshots show: the messages of the
\* steps and total_files, beside those of InitialStatus.
FreshRecord ==
    [active |-> InitialStatus.active,
     steps |-> InitialStatus.steps,
     error |-> InitialStatus.error,
     messages |-> [s \in StepNames |-> ""],
     total_files |-> 0]

\* The numbers of allowed files of a request.
TotalFiles == {1, 2}

\* The thread is inside a `with indexing_lock:` block, between two of its
\* assignments.
Holding(r) ==
    requests[r].pc \in
        {"total_files", "message", "fail_active", "fail_status", "fail_message"}

\* A lock that is never held.
LockNeverHeld == TRUE

\* indexing_lock can be acquired.
LockFree == \A r \in Requests : ~Holding(r)

\* The caller between two calls; `before` is the record as it was when
\* the start that is under way began.
IdleCaller ==
    [pc |-> "call", calls |-> 0, step |-> "None", status |-> "None",
     message |-> "None", total_files |-> 0, before |-> FreshRecord]

\* The generator of progress_stream before its first snapshot; with a
\* snapshot it keeps where the caller was when it was taken.
IdleObserver ==
    [pc |-> "copy", data |-> FreshRecord, during |-> "call",
     before |-> FreshRecord]

InitProgress ==
    /\ requests = [r \in Requests |->
                      IF r = Caller THEN IdleCaller ELSE IdleObserver]
    /\ up = TRUE
    /\ faiss_index = None
    /\ metadata = <<>>
    /\ faiss_file = AbsentIndexFile
    /\ metadata_file = AbsentMetadataFile
    /\ indexing_status = FreshRecord
    /\ ret = Ret("init", "none")
    /\ hist = FreshHist

\* The caller is at `pc`, and may take the lock if it does not hold it.
CallerAt(pc) ==
    /\ requests[Caller].pc = pc
    /\ Holding(Caller) \/ LockFree

\* The caller writes the record and goes on to `pc`.
CallerWrites(status_rec, pc) ==
    /\ indexing_status' = status_rec
    /\ requests' = [requests EXCEPT ![Caller].pc = pc]
    /\ UNCHANGED <<up, store, disk, ret, hist>>

\* The caller begins a call, at the first assignment inside the lock.
Begins(status_rec, pc, step, status, message, total_files) ==
    /\ requests[Caller].pc = "call"
    /\ requests[Caller].calls < MaxCalls
    /\ LockFree
    /\ indexing_status' = status_rec
    /\ requests' = [requests EXCEPT ![Caller] =
           [pc |-> pc, calls |-> @.calls + 1, step |-> step,
            status |-> status, message |-> message,
            total_files |-> total_files,
            before |-> IF pc = "activate" THEN indexing_status
                       ELSE FreshRecord]]
    /\ UNCHANGED <<up, store, disk, ret, hist>>

\* The call is over.
Ends(status_rec) ==
    /\ indexing_status' = status_rec
    /\ requests' = [requests EXCEPT ![Caller] =
           [IdleCaller EXCEPT !.calls = requests[Caller].calls]]
    /\ UNCHANGED <<up, store, disk, ret, hist>>

\* upload_files starts a run: reset_indexing_status(), which assigns the
\* fresh record under the lock and releases it ...
CallReset(total_files) ==
    /\ total_files \in TotalFiles
    /\ Begins(FreshRecord, "activate", "None", "None", "None", total_files)

\* ... then, under the lock again: indexing_status["active"] = True
SetActive ==
    /\ CallerAt("activate")
    /\ CallerWrites([indexing_status EXCEPT !.active = TRUE], "total_files")

\* indexing_status["total_files"] = ..., and the lock is released.
SetTotalFiles ==
    /\ CallerAt("total_files")
    /\ Ends([indexing_status EXCEPT
                !.total_files = requests[Caller].total_files])

\* update_step_status: indexing_status["steps"][step]["status"] = status
CallUpdate(step, status) ==
    /\ step \in StepNames
    /\ Begins([indexing_status EXCEPT !.steps[step] = status],
              "message", step, status, status, 0)

\* indexing_status["steps"][step]["message"] = message (the message is
\* the one that goes with the status), and the lock is released.
SetMessage ==
    /\ CallerAt("message")
    /\ Ends([indexing_status EXCEPT
                !.messages[requests[Caller].step] = requests[Caller].message])

\* set_indexing_error: indexing_status["error"] = error_message
CallFail(error_message, failed_step) ==
    /\ failed_step \in StepNames
    /\ Begins([indexing_status EXCEPT !.error = error_message],
              "fail_active", failed_step, "error", error_message, 0)

\* indexing_status["active"] = False
FailActive ==
    /\ CallerAt("fail_active")
    /\ CallerWrites([indexing_status EXCEPT !.active = FALSE], "fail_status")

\* indexing_status["steps"][failed_step]["status"] = "error"
FailStatus ==
    /\ CallerAt("fail_status")
    /\ CallerWrites([indexing_status EXCEPT
                        !.steps[requests[Caller].step] = "error"],
                    "fail_message")

\* indexing_status["steps"][failed_step]["message"] = error_message, and
\* the lock is released.
FailMessage ==
    /\ CallerAt("fail_message")
    /\ Ends([indexing_status EXCEPT
                !.messages[requests[Caller].step] = requests[Caller].message])

\* The end of upload_files: indexing_status["active"] = False under the
\* lock.
CallFinish ==
    /\ requests[Caller].pc = "call"
    /\ requests[Caller].calls < MaxCalls
    /\ LockFree
    /\ Ends([indexing_status EXCEPT !.active = FALSE])

\* progress_stream: under the lock, data = json.dumps(indexing_status).
\* `during` is where the caller was at that moment.
Snapshot ==
    /\ requests[Observer].pc = "copy"
    /\ LockFree
    /\ requests' = [requests EXCEPT ![Observer] =
           [pc |-> "yield", data |-> indexing_status,
            during |-> requests[Caller].pc,
            before |-> requests[Caller].before]]
    /\ UNCHANGED <<up, store, disk, indexing_status, ret, hist>>

\* yield f"data: {data}\n\n"
Yield ==
    /\ requests[Observer].pc = "yield"
    /\ requests' = [requests EXCEPT ![Observer].pc = "is_active"]
    /\ UNCHANGED <<up, store, disk, indexing_status, ret, hist>>

\* Under the lock, is_active = indexing_status["active"]; then the sleep,
\* and the loop goes round.
ReadActive ==
    /\ requests[Observer].pc = "is_active"
    /\ LockFree
    /\ requests' = [requests EXCEPT ![Observer].pc = "copy"]
    /\ UNCHANGED <<up, store, disk, indexing_status, ret, hist>>

NextProgress ==
    \/ \E total_files \in TotalFiles : CallReset(total_files)
    \/ SetActive
    \/ SetTotalFiles
    \/ \E step \in StepNames, status \in {"processing", "completed"} :
          CallUpdate(step, status)
    \/ SetMessage
    \/ \E error_message \in Messages, failed_step \in {"parsing", "embedding"} :
          CallFail(error_message, failed_step)
    \/ FailActive
    \/ FailStatus
    \/ FailMessage
    \/ CallFinish
    \/ Snapshot
    \/ Yield
    \/ ReadActive

\* The writer of the progress record and an observer of it.
SpecProgress == InitProgress /\ [][NextProgress]_vars

\* Every step of the record has the message that was written with its
\* status, and no error is recorded in a record that is active.
Whole(status_rec) ==
    /\ \A s \in StepNames :
          CASE status_rec.steps[s] = "pending" -> status_rec.messages[s] = ""
            [] status_rec.steps[s] = "error" -> status_rec.messages[s] \in Messages
            [] OTHER -> status_rec.messages[s] = status_rec.steps[s]
    /\ status_rec.error # "None" => ~status_rec.active

\* The observer holds a snapshot it has just taken.
Snapped == requests[Observer].pc = "yield"

\* C21: a snapshot is a copy of the record as it was between two
\* assignments under the lock of no operation: each step has the message
\* of its status, and no error is set in a record still active.
C21_SnapshotsWhole ==
    Snapped =>
        /\ requests[Observer].during \in {"call", "activate"}
        /\ Whole(requests[Observer].data)

\* C21, witness: a snapshot taken after set_indexing_error shows the error,
\* the step and its message.
C21_Witness ==
    /\ Snapped
    /\ requests[Observer].data.error = "x"
    /\ requests[Observer].data.steps["parsing"] = "error"
    /\ requests[Observer].data.messages["parsing"] = "x"
    /\ ~requests[Observer].data.active

\* C22: a snapshot taken while a run is being started shows the record as
\* it was before the start, or all steps 'pending' with active true and
\* total_files recorded: never the freshly reset record, not yet active
\* and without total_files.
C22_StartIsOneOperation ==
    (Snapped /\ requests[Observer].during = "activate") =>
        \/ requests[Observer].data = requests[Observer].before
        \/ /\ requests[Observer].data.active
           /\ requests[Observer].data.total_files \in TotalFiles
           /\ \A s \in StepNames :
                 requests[Observer].data.steps[s] = "pending"

\* --------------------------------------------- the store: threads at once
\* The most operations one thread performs, one after the other.
MaxOps == 2

\* A thread of the server that is serving no request: the operation it
\* performed last and its locals (texts, start_id and the loop index i of
\* create_or_update_index; the hits and the results of search_index).
IdleThread ==
    [pc |-> "idle", op |-> "none", err |-> "none", ops |-> 0,
     texts |-> <<>>, start_id |-> 0, i |-> 0,
     q |-> 0, k |-> 0, hits |-> <<>>, results |-> <<>>]

\* The server is running on an empty index directory and serves nothing.
InitThreads ==
    /\ requests = [t \in Requests |-> IdleThread]
    /\ up = TRUE
    /\ faiss_index = None
    /\ metadata = <<>>
    /\ faiss_file = AbsentIndexFile
    /\ metadata_file = AbsentMetadataFile
    /\ indexing_status = InitialStatus
    /\ ret = Ret("init", "none")
    /\ hist = FreshHist

\* Thread t begins operation `op`.
Called(t, op) ==
    [IdleThread EXCEPT !.pc = op, !.op = op, !.ops = requests[t].ops + 1]

\* Thread t is free to begin an operation.
Free(t) == up /\ requests[t].pc = "idle" /\ requests[t].ops < MaxOps

\* Thread t ends its operation.
Return(t, err) ==
    requests' = [requests EXCEPT ![t].pc = "idle", ![t].err = err]

\* create_or_update_index(texts, sources) is called: the embeddings are
\* made, the status goes up to 'faiss' 'processing', and the index is
\* created if there is none.
CallInsert(t, texts, dim) ==
    /\ Free(t)
    /\ requests' = [requests EXCEPT ![t] =
           [Called(t, "insert") EXCEPT !.pc = "start_id", !.texts = texts]]
    /\ indexing_status' =
           update_step_status(
               update_step_status(
                   update_step_status(indexing_status, "embedding", "processing"),
                   "embedding", "completed"),
               "faiss", "processing")
    /\ faiss_index' = IF faiss_index.none THEN IndexFlatL2(dim) ELSE faiss_index
    /\ UNCHANGED <<up, metadata, disk, ret, hist>>

\* start_id = faiss_index.ntotal
ReadTotal(t) ==
    /\ requests[t].pc = "start_id"
    /\ IF faiss_index.none
       THEN Return(t, "AttributeError")
       ELSE requests' = [requests EXCEPT ![t].pc = "add",
                                         ![t].start_id = ntotal(faiss_index)]
    /\ UNCHANGED <<up, store, disk, indexing_status, ret, hist>>

\* faiss_index.add(embeddings_array)
AddVectors(t) ==
    /\ requests[t].pc = "add"
    /\ IF faiss_index.none
       THEN /\ Return(t, "AttributeError")
            /\ UNCHANGED faiss_index
       ELSE /\ faiss_index' =
                   add(faiss_index, embed_texts(requests[t].texts, faiss_index.d))
            /\ requests' = [requests EXCEPT ![t].pc = "append", ![t].i = 1]
    /\ UNCHANGED <<up, metadata, disk, indexing_status, ret, hist>>

\* One pass of the loop that appends the entries to metadata.
AppendEntry(t) ==
    /\ requests[t].pc = "append"
    /\ LET th == requests[t]
           entries == new_entries(th.texts, Len(th.texts), th.start_id)
       IN  /\ metadata' = Append(metadata, entries[th.i])
           /\ requests' = [requests EXCEPT
                  ![t].i = @ + 1,
                  ![t].pc = IF th.i = Len(th.texts) THEN "save" ELSE "append"]
    /\ UNCHANGED <<up, faiss_index, disk, indexing_status, ret, hist>>

\* save_index() writes the globals as they are (nothing when there is no
\* index), and the status 'faiss' is completed.
SaveIndex(t) ==
    /\ requests[t].pc = "save"
    /\ LET files == save_index(faiss_index, metadata, "done",
                               faiss_file, metadata_file)
       IN  /\ faiss_file' = IF faiss_index.none THEN faiss_file ELSE files[1]
           /\ metadata_file' =
                  IF faiss_index.none THEN metadata_file ELSE files[2]
    /\ indexing_status' =
           update_step_status(indexing_status, "faiss", "completed")
    /\ Return(t, "none")
    /\ hist' = SpoiltHist
    /\ UNCHANGED <<up, store, ret>>

\* search_index(query, top_k) is called: with no index or an empty one it
\* returns [] at once.
CallSearch(t, q, top_k) ==
    /\ Free(t)
    /\ requests' = [requests EXCEPT ![t] =
           [Called(t, "search") EXCEPT
               !.pc = IF faiss_index.none \/ ntotal(faiss_index) = 0
                      THEN "idle" ELSE "search",
               !.q = q, !.k = top_k]]
    /\ UNCHANGED <<up, store, disk, indexing_status, ret, hist>>

\* faiss_index.search(query_vector, min(top_k, faiss_index.ntotal))
SearchVectors(t) ==
    /\ requests[t].pc = "search"
    /\ IF faiss_index.none
       THEN Return(t, "AttributeError")
       ELSE requests' = [requests EXCEPT
                ![t].pc = "results",
                ![t].hits =
                    FaissSearch(faiss_index,
                                embed_single(requests[t].q, faiss_index.d),
                                Min(requests[t].k, ntotal(faiss_index)))]
    /\ UNCHANGED <<up, store, disk, indexing_status, ret, hist>>

\* The loop over the hits, which reads metadata.
CollectResults(t) ==
    /\ requests[t].pc = "results"
    /\ LET r == ResultsOf(requests[t].hits, metadata)
       IN  requests' = [requests EXCEPT ![t].pc = "idle", ![t].err = r.err,
                                        ![t].results = r.results]
    /\ UNCHANGED <<up, store, disk, indexing_status, ret, hist>>

\* clear_index is called: faiss_index = None
CallClear(t) ==
    /\ Free(t)
    /\ requests' = [requests EXCEPT ![t] =
           [Called(t, "clear") EXCEPT !.pc = "clear_metadata"]]
    /\ faiss_index' = ClearedIndex
    /\ UNCHANGED <<up, metadata, disk, indexing_status, ret, hist>>

\* metadata = []
ClearMetadata(t) ==
    /\ requests[t].pc = "clear_metadata"
    /\ metadata' = <<>>
    /\ requests' = [requests EXCEPT ![t].pc = "rmtree"]
    /\ UNCHANGED <<up, faiss_index, disk, indexing_status, ret, hist>>

\* shutil.rmtree of the index directory, and reset_indexing_status()
RemoveFiles(t) ==
    /\ requests[t].pc = "rmtree"
    /\ faiss_file' = AbsentIndexFile
    /\ metadata_file' = AbsentMetadataFile
    /\ indexing_status' = InitialStatus
    /\ Return(t, "none")
    /\ hist' = SpoiltHist
    /\ UNCHANGED <<up, store, ret>>

\* The threads of the server take their steps in any order: no lock is
\* taken around the store. The texts are all alike: their number is what
\* matters here.
NextThreads ==
    \E t \in Requests :
        \/ \E texts \in SeqsOf(OneToken, 1, MaxBatch), dim \in EmbedderDims :
              CallInsert(t, texts, dim)
        \/ ReadTotal(t)
        \/ AddVectors(t)
        \/ AppendEntry(t)
        \/ SaveIndex(t)
        \/ \E q \in OneToken, top_k \in TopKs : CallSearch(t, q, top_k)
        \/ SearchVectors(t)
        \/ CollectResults(t)
        \/ CallClear(t)
        \/ ClearMetadata(t)
        \/ RemoveFiles(t)

SpecThreads == InitThreads /\ [][NextThreads]_vars

\* C24: a search that has looked into the index returns as many results
\* as the index gave hits (min(k, total) of them), each the entry of the
\* vector that was matched, whatever insert is under way.
C24_SearchSeesWholeInserts ==
    \A t \in Requests :
        (requests[t].pc = "idle" /\ requests[t].op = "search"
            /\ requests[t].hits # <<>>) =>
            /\ requests[t].err = "none"
            /\ Len(requests[t].results) = Len(requests[t].hits)
            /\ \A r \in 1..Len(requests[t].results) :
                  requests[t].results[r].id = requests[t].hits[r].idx

\* C25: when the writers have returned, the store is as after the
\* operations in some order, and so aligned: as many entries as vectors,
\* with the ids 0, 1, 2, ...
C25_WritersSerialized ==
    (\A t \in Requests : requests[t].pc = "idle")
        => Aligned(faiss_index, metadata)
====
